---- MODULE Spec2Model ----
(***************************************************************************)
(* A model of rfdiffusion/contigs.py: the construction of a ContigMap.     *)
(*                                                                         *)
(* One behaviour is one call of ContigMap.__init__.  The constructor is    *)
(* cut into its stages (sanity checks, one pass of the rejection-sampling  *)
(* loop of get_sampled_mask, expand_sampled_mask, the masks, get_idx0,     *)
(* provide_seq, the secondary-structure checks); pc is the stage that runs *)
(* next.  An uncaught Python exception, a failed assert and sys.exit all   *)
(* end the construction: pc = "failed".                                    *)
(*                                                                         *)
(* Text is modelled by its parse.  A contig string is the sequence of its  *)
(* whitespace-separated chains, a chain the sequence of its "/"-separated  *)
(* tokens, and a token one of                                              *)
(*    Ref(c, s, e)   the text "<c><s>-<e>"   e.g. "A1-5"                   *)
(*    Res(c, n)      the text "<c><n>"       e.g. "A5"                     *)
(*    Num(n)         the text "<n>"          e.g. "10", "0"                *)
(*    Rng(lo, hi)    the text "<lo>-<hi>"    e.g. "5-10", "7-7"            *)
(* with numbers in canonical decimal, so that two texts are equal exactly  *)
(* when their parses are.  The calls modelled have topo = False and no     *)
(* inpaint_seq_tensor / inpaint_str_tensor.                                *)
(***************************************************************************)
EXTENDS Integers, Sequences, FiniteSets, TLC

VARIABLES
    pc,                   \* the stage of __init__ that runs next
    err,                  \* why the construction ended, "" while it has not
    contigs,              \* argument contigs: None or Some(sequence of chains)
    length_arg,           \* argument length: None or Some(Num(n) / Rng(lo, hi))
    sym_order,            \* argument sym_order: None or Some(k)
    ref_idx,              \* argument ref_idx: None or Some(sequence)
    hal_idx,              \* argument hal_idx
    idx_rf,               \* argument idx_rf
    inpaint_seq_arg,      \* argument inpaint_seq (a residue list), read by the masks stage
    inpaint_str_arg,      \* argument inpaint_str (a residue list), read by the masks stage
    provide_seq,          \* argument provide_seq, read by the provide_seq stage
    ss_args,              \* arguments inpaint_str_helix / _strand / _loop, read by the last stage
    length,               \* self.length: None or Some(<<min, max>>)
    count,                \* get_sampled_mask: count
    compatible,           \* get_sampled_mask: length_compatible, as the last pass left it
    sampled_mask,         \* self.sampled_mask
    contig_length,        \* self.contig_length
    n_inpaint_chains,     \* self.n_inpaint_chains
    receptor,             \* self.receptor
    receptor_hal,         \* self.receptor_hal
    receptor_rf,          \* self.receptor_rf
    inpaint,              \* self.inpaint: None while the attribute does not exist
    inpaint_hal,          \* self.inpaint_hal
    inpaint_rf,           \* self.inpaint_rf
    receptor_chain_break, \* expand_sampled_mask: receptor_chain_break
    inpaint_chain_break,  \* expand_sampled_mask: inpaint_chain_break
    ref,                  \* self.ref
    hal,                  \* self.hal
    rf,                   \* self.rf
    mask_1d,              \* self.mask_1d
    inpaint_seq,          \* self.inpaint_seq once it is a mask
    inpaint_str,          \* self.inpaint_str once it is a mask
    seq_before,           \* self.inpaint_seq as the masks stage left it
    idx0,                 \* the six lists get_idx0 returns, None before
    ss_spec               \* self.ss_spec: None or Some([helix, strand, loop])

vars == <<pc, err, contigs, length_arg, sym_order, ref_idx, hal_idx, idx_rf,
          inpaint_seq_arg, inpaint_str_arg, provide_seq, ss_args, length, count,
          compatible, sampled_mask, contig_length, n_inpaint_chains, receptor, receptor_hal,
          receptor_rf, inpaint, inpaint_hal, inpaint_rf, receptor_chain_break,
          inpaint_chain_break, ref, hal, rf, mask_1d, inpaint_seq, inpaint_str,
          seq_before, idx0, ss_spec>>

argVars == <<contigs, length_arg, sym_order, ref_idx, hal_idx, idx_rf>>
sampleVars == <<count, compatible, sampled_mask, contig_length, n_inpaint_chains>>
expandVars == <<receptor, receptor_hal, receptor_rf, inpaint, inpaint_hal, inpaint_rf,
                receptor_chain_break, inpaint_chain_break, ref, hal, rf>>
maskVars == <<mask_1d, inpaint_seq, inpaint_str, seq_before, inpaint_seq_arg, inpaint_str_arg>>

----------------------------------------------------------------------------
(* Bounds of the model *)

MaxGen == 3        \* the largest generated length a ranged token can draw
MaxResNum == 6     \* chain A of the reference structure has residues 1..MaxResNum
RetryCap == 3      \* stands for the 100000 of get_sampled_mask's retry loop

----------------------------------------------------------------------------
(* Values *)

None == <<>>
Some(x) == <<x>>
Val(o) == o[1]

Gap == <<"_", "_">>

chain_order == <<"A", "B", "C", "D", "E", "F", "G", "H", "I", "J", "K", "L", "M",
                 "N", "O", "P", "Q", "R", "S", "T", "U", "V", "W", "X", "Y", "Z">>

Ref(c, s, e) == [t |-> "ref", ch |-> c, a |-> s, b |-> e]
Res(c, n) == [t |-> "res", ch |-> c, a |-> n, b |-> n]
Num(n) == [t |-> "int", ch |-> "", a |-> n, b |-> n]
Rng(lo, hi) == [t |-> "rng", ch |-> "", a |-> lo, b |-> hi]

\* subcon[0].isalpha()
isalpha(tok) == tok.t \in {"ref", "res"}
\* "-" in subcon
hasDash(tok) == tok.t \in {"ref", "rng"}
\* subcon == "0"
isZero(tok) == tok.t = "int" /\ tok.a = 0

Range(s) == {s[i] : i \in DOMAIN s}
Last(s) == s[Len(s)]
Front(s) == SubSeq(s, 1, Len(s) - 1)
\* s * n for a Python list
RECURSIVE Repeat(_, _)
Repeat(s, n) == IF n <= 0 THEN <<>> ELSE s \o Repeat(s, n - 1)
\* list(range(a, b + 1)) as a sequence
Upto(a, b) == [i \in 1..(IF b >= a THEN b - a + 1 ELSE 0) |-> a + i - 1]
RECURSIVE Sum(_)
Sum(s) == IF s = <<>> THEN 0 ELSE Head(s) + Sum(Tail(s))

----------------------------------------------------------------------------
(* The reference structure and the arguments of the modelled calls *)

\* parsed_pdb["pdb_idx"]: chain A with residues 1..MaxResNum, chain B with 1..2
pdb_idx == [i \in 1..MaxResNum |-> <<"A", i>>] \o <<<<"B", 1>>, <<"B", 2>>>>

\* The chain sub-specifications the contig strings are made of.
ChainSpecs ==
    { <<Rng(1, MaxGen)>>,                          \* "1-3"          generated, ranged
      <<Ref("A", 1, 2), Num(2)>>,                  \* "A1-2/2"       motif and generated
      <<Num(2), Num(2)>>,                          \* "2/2"          generated only
      <<Ref("A", 3, 4), Rng(2, 2)>>,               \* "A3-4/2-2"     motif and generated
      <<Ref("A", 3, 4), Num(2)>>,                  \* "A3-4/2"       as "A1-2/2", other residues
      <<Ref("A", 1, 2), Ref("A", 5, 6), Num(0)>>,  \* "A1-2/A5-6/0"  receptor, two fragments
      <<Ref("A", 1, 3), Ref("A", 2, 4), Num(0)>>,  \* "A1-3/A2-4/0"  receptor, overlapping fragments
      <<Ref("A", 3, 4), Ref("A", 1, 2), Num(0)>>,  \* "A3-4/A1-2/0"  receptor, descending fragments
      <<Ref("A", 1, 2), Ref("B", 1, 2), Num(0)>>,  \* "A1-2/B1-2/0"  receptor, two chains
      <<Ref("B", 1, 2)>>,                          \* "B1-2"         receptor when it comes last
      <<Ref("C", 1, 1), Num(1)>>,                  \* "C1-1/1"       a residue the structure lacks
      <<Res("A", 1), Num(1)>> }                    \* "A1/1"         single-residue token

\* contigs[0]: one or two chains
ContigStrings == {<<c>> : c \in ChainSpecs} \cup {<<c, d>> : c \in ChainSpecs, d \in ChainSpecs}

SymOrders == {None, Some(2), Some(3)}

\* length: not given, "2", "3-4", "8"
Lengths == {None, Some(Num(2)), Some(Rng(3, 4)), Some(Num(8))}

\* a precise mapping (ref_idx, hal_idx, idx_rf)
PreciseRef == << <<"A", 1>>, Gap, <<"A", 2>> >>
PreciseHal == << <<"A", 1>>, <<"A", 2>>, <<"A", 3>> >>
PreciseRf == <<0, 1, 2>>

\* the (ref_idx, hal_idx, idx_rf) of the calls: none, one, two or all three given
PreciseMappings ==
    { <<None, None, None>>,
      <<Some(PreciseRef), None, None>>,
      <<None, Some(PreciseHal), Some(PreciseRf)>>,
      <<Some(PreciseRef), Some(PreciseHal), Some(PreciseRf)>> }

\* inpaint_seq / inpaint_str residue lists: not given, ["A1-2"], ["A2", "B2"]
ResidueLists == {None, Some(<<Ref("A", 1, 2)>>), Some(<<Res("A", 2), Res("B", 2)>>)}

\* (inpaint_str_helix, inpaint_str_strand, inpaint_str_loop)
SSLists ==
    { <<None, None, None>>,
      <<Some(<<Ref("A", 1, 2)>>), None, None>>,
      <<Some(<<Res("A", 1)>>), Some(<<Res("A", 2)>>), None>>,
      <<Some(<<Ref("A", 1, 2)>>), Some(<<Res("A", 2)>>), None>>,
      <<None, None, Some(<<Res("B", 2)>>)>> }

\* provide_seq: not given, "0-1", "1,3-20", "8"
ProvideSeqs == {None, Some(<<Rng(0, 1)>>), Some(<<Num(1), Rng(3, 20)>>), Some(<<Num(8)>>)}

----------------------------------------------------------------------------
(* get_sampled_mask *)

\* a receptor chain (topo is False)
is_receptor(con) ==
    /\ \A i \in 1..(Len(con) - 1) : isalpha(con[i])
    /\ isZero(Last(con))

\* ref_contigs[i]: a chain with its reference tokens replaced by their lengths
ref_contigs(con) ==
    [j \in DOMAIN con |->
        IF isalpha(con[j])
        THEN IF hasDash(con[j]) THEN Num(con[j].b - con[j].a + 1) ELSE Num(1)
        ELSE con[j]]

\* "allow receptor chain to be last in contig string"
allow_receptor_last(contig_list) ==
    IF \A tok \in Range(Last(contig_list)) : isalpha(tok)
    THEN [contig_list EXCEPT ![Len(contig_list)] = Append(@, Num(0))]
    ELSE contig_list

\* the resolutions of one token of an inpaint chain: what is appended to
\* subcon_out and what is added to sampled_mask_length
sample_subcon(subcon) ==
    IF isalpha(subcon)
    THEN {[out |-> subcon,
           len |-> IF hasDash(subcon) THEN subcon.b - subcon.a + 1 ELSE 1]}
    ELSE IF hasDash(subcon)
    THEN {[out |-> Rng(n, n), len |-> n] : n \in subcon.a..subcon.b}
    ELSE IF isZero(subcon)
    THEN {[out |-> Num(0), len |-> 0]}
    ELSE {[out |-> Rng(subcon.a, subcon.a), len |-> subcon.a]}

RECURSIVE sample_con(_)
sample_con(subcons) ==
    IF subcons = <<>>
    THEN {[out |-> <<>>, len |-> 0]}
    ELSE {[out |-> <<h.out>> \o r.out, len |-> h.len + r.len] :
            h \in sample_subcon(Head(subcons)), r \in sample_con(Tail(subcons))}

\* one pass over contig_list: the possible (sampled_mask, sampled_mask_length, inpaint_chains)
RECURSIVE sample_contig_list(_)
sample_contig_list(contig_list) ==
    IF contig_list = <<>>
    THEN {[mask |-> <<>>, len |-> 0, chains |-> 0]}
    ELSE LET con == Head(contig_list)
             first == IF is_receptor(con)
                      THEN {[out |-> con, len |-> 0, chains |-> 0]}
                      ELSE {[out |-> s.out, len |-> s.len, chains |-> 1] : s \in sample_con(con)}
         IN  {[mask |-> <<f.out>> \o r.mask, len |-> f.len + r.len, chains |-> f.chains + r.chains] :
                f \in first, r \in sample_contig_list(Tail(contig_list))}

\* "check length is compatible" and "check if length works with symmetry"
length_compatible(sampled_mask_length, check_symmetry) ==
    /\ length # None =>
          /\ sampled_mask_length >= Val(length)[1]
          /\ sampled_mask_length < Val(length)[2]
    /\ check_symmetry => sampled_mask_length % Val(sym_order) = 0

\* retries_exhausted comparing the count before the pass, which the cap
\* never equals once a pass is counted
retries_exhausted_late(n) == n = RetryCap + 1

\* "if count == 100000", with count already incremented
retries_exhausted(n) == n = RetryCap

\* rebuilds without the test of check_symmetry
rebuilds_always(check_symmetry) == sym_order # None

\* is the rebuild after the loop taken
rebuilds(check_symmetry) == sym_order # None /\ ~check_symmetry

\* "Rebuild values when using symmetry and multiple chains"
rebuild(r, og_contigs, check_symmetry) ==
    IF rebuilds(check_symmetry)
    THEN LET k == Val(sym_order)
             rep == Repeat(r.mask, k)
         IN  [mask |-> [i \in DOMAIN rep |->
                          IF i <= Len(og_contigs)
                          THEN [j \in DOMAIN rep[i] |->
                                  IF j <= Len(og_contigs[i]) /\ isalpha(og_contigs[i][j])
                                  THEN og_contigs[i][j]
                                  ELSE rep[i][j]]
                          ELSE rep[i]],
              len |-> r.len * k,
              chains |-> r.chains * k]
    ELSE r

----------------------------------------------------------------------------
(* expand_sampled_mask *)

\* [(subcon[0], i) for i in np.arange(start, end + 1)]
ref_to_add(subcon) == [i \in 1..Len(Upto(subcon.a, subcon.b)) |-> <<subcon.ch, Upto(subcon.a, subcon.b)[i]>>]

\* hal_to_add with the last output identifier dropped
hal_to_add_short(chain, idx, n) == [i \in 1..(n - 1) |-> <<chain, idx + i - 1>>]

\* [(chain, i) for i in np.arange(idx, idx + n)]
hal_to_add(chain, idx, n) == [i \in 1..n |-> <<chain, idx + i - 1>>]

\* the locals of expand_sampled_mask before the loop over self.sampled_mask
expand_start ==
    [receptor |-> <<>>, receptor_hal |-> <<>>, receptor_idx |-> 1,
     inpaint |-> <<>>, inpaint_hal |-> <<>>, inpaint_idx |-> 1, inpaint_chain_idx |-> -1,
     receptor_chain_break |-> <<>>, inpaint_chain_break |-> <<>>, error |-> ""]

\* idx_jump without the - 1
idx_jump_no_minus(subcon, next) == next.a - subcon.b

\* idx_jump: the gap in reference numbering between a fragment and the next
idx_jump(subcon, next) == next.a - subcon.b - 1

\* lines 320-349: the fragments idx.. of one receptor block
RECURSIVE expand_receptor(_, _, _, _)
expand_receptor(st, subcons, idx, receptor_chain) ==
    IF idx > Len(subcons) \/ st.error # ""
    THEN st
    ELSE LET subcon == subcons[idx]
             n == Len(ref_to_add(subcon))
             receptor_idx == st.receptor_idx + n
         IN  IF ~hasDash(subcon)
             THEN [st EXCEPT !.error = "IndexError: list index out of range"]
             ELSE expand_receptor(
                    [st EXCEPT
                       !.receptor = @ \o ref_to_add(subcon),
                       !.receptor_hal = @ \o hal_to_add(receptor_chain, st.receptor_idx, n),
                       !.receptor_idx = receptor_idx,
                       !.receptor_chain_break =
                           Append(@, IF idx # Len(subcons)
                                     THEN <<receptor_idx - 1, idx_jump(subcon, subcons[idx + 1])>>
                                     ELSE <<receptor_idx - 1, 200>>)],
                    subcons, idx + 1, receptor_chain)

\* lines 352-382: the tokens of one inpaint chain
RECURSIVE expand_inpaint(_, _)
expand_inpaint(st, subcons) ==
    IF subcons = <<>> \/ st.error # ""
    THEN st
    ELSE LET subcon == Head(subcons)
             n == IF isalpha(subcon) THEN Len(ref_to_add(subcon)) ELSE subcon.a
         IN  IF isalpha(subcon) /\ ~hasDash(subcon)
             THEN [st EXCEPT !.error = "IndexError: list index out of range"]
             ELSE expand_inpaint(
                    [st EXCEPT
                       !.inpaint = @ \o (IF isalpha(subcon) THEN ref_to_add(subcon)
                                                            ELSE [i \in 1..n |-> Gap]),
                       !.inpaint_hal = @ \o hal_to_add(chain_order[st.inpaint_chain_idx + 1],
                                                       st.inpaint_idx, n),
                       !.inpaint_idx = @ + n],
                    Tail(subcons))

\* lines 305-383: the loop over self.sampled_mask
RECURSIVE expand_cons(_, _, _)
expand_cons(st, cons, receptor_chain) ==
    IF cons = <<>> \/ st.error # ""
    THEN st
    ELSE LET con == Head(cons)
             subcons == Front(con)
         IN  IF is_receptor(con)
             THEN IF \E i \in DOMAIN subcons : subcons[i].ch # subcons[1].ch
                  THEN [st EXCEPT !.error = "fragments MUST derive from the same chain"]
                  ELSE IF \E i \in 1..(Len(subcons) - 1) : ~(subcons[i].a < subcons[i + 1].a)
                  THEN [st EXCEPT !.error = "pdb indices must be in ascending order!"]
                  ELSE expand_cons(expand_receptor(st, subcons, 1, receptor_chain),
                                   Tail(cons), receptor_chain)
             ELSE LET s1 == expand_inpaint([st EXCEPT !.inpaint_chain_idx = @ + 1], con)
                  IN  expand_cons(
                        IF s1.error # "" THEN s1
                        ELSE [s1 EXCEPT !.inpaint_chain_break = Append(@, <<s1.inpaint_idx - 1, 200>>)],
                        Tail(cons), receptor_chain)

\* lines 385-390: "rosetta-like numbering" of the receptor
renumber_receptor_hal(st) ==
    IF st.inpaint_hal = <<>>
    THEN st.receptor_hal
    ELSE [i \in DOMAIN st.receptor_hal |->
            <<st.receptor_hal[i][1], st.receptor_hal[i][2] + Last(st.inpaint_hal)[2]>>]

\* arr[pos:] += jump
add_from(arr, pos, jump) == [i \in DOMAIN arr |-> IF i > pos THEN arr[i] + jump ELSE arr[i]]

\* lines 394-396: the inpaint chain breaks
RECURSIVE apply_inpaint_breaks(_, _)
apply_inpaint_breaks(rfs, breaks) ==
    IF breaks = <<>>
    THEN rfs
    ELSE apply_inpaint_breaks(
           [receptor_rf |-> add_from(rfs.receptor_rf, 0, 200),
            inpaint_rf |-> add_from(rfs.inpaint_rf, Head(breaks)[1], Head(breaks)[2])],
           Tail(breaks))

\* lines 397-398: the receptor chain breaks
RECURSIVE apply_receptor_breaks(_, _)
apply_receptor_breaks(rfs, breaks) ==
    IF breaks = <<>>
    THEN rfs
    ELSE apply_receptor_breaks(
           [rfs EXCEPT !.receptor_rf = add_from(@, Head(breaks)[1], Head(breaks)[2])],
           Tail(breaks))

\* lines 391-398: "get rf indexes, with chain breaks"
get_rf(st) ==
    LET n_inpaint == Len(st.inpaint)
        start == [inpaint_rf |-> [i \in 1..n_inpaint |-> i - 1],
                  receptor_rf |-> [i \in 1..Len(st.receptor) |-> n_inpaint + 200 + i - 1]]
    IN  apply_receptor_breaks(apply_inpaint_breaks(start, Front(st.inpaint_chain_break)),
                              Front(st.receptor_chain_break))

----------------------------------------------------------------------------
(* get_inpaint_seq_str, get_idx0 *)

\* list.index(x) + 1, for x in list
index(list, x) == CHOOSE i \in DOMAIN list : list[i] = x /\ \A j \in 1..(i - 1) : list[j] # x

\* lines 417-429: the residues a list of tokens names
RECURSIVE inpaint_s_list(_)
inpaint_s_list(inpaint_s) ==
    IF inpaint_s = <<>>
    THEN <<>>
    ELSE LET i == Head(inpaint_s)
         IN  (IF hasDash(i) THEN ref_to_add(i) ELSE <<<<i.ch, i.a>>>>)
             \o inpaint_s_list(Tail(inpaint_s))

\* mask_residues masking every occurrence of a residue, not the first
RECURSIVE mask_residues_all(_, _, _)
mask_residues_all(s_mask, residues, the_ref) ==
    IF residues = <<>>
    THEN s_mask
    ELSE mask_residues_all([i \in DOMAIN s_mask |-> s_mask[i] /\ the_ref[i] # Head(residues)],
                           Tail(residues), the_ref)

\* lines 430-432: "mask this residue"
RECURSIVE mask_residues(_, _, _)
mask_residues(s_mask, residues, the_ref) ==
    IF residues = <<>>
    THEN s_mask
    ELSE LET res == Head(residues)
         IN  mask_residues(IF res \in Range(the_ref)
                           THEN [s_mask EXCEPT ![index(the_ref, res)] = FALSE]
                           ELSE s_mask,
                           Tail(residues), the_ref)

get_inpaint_seq_str(inpaint_s, ss, the_mask_1d, the_ref) ==
    mask_residues(IF ~ss THEN the_mask_1d ELSE [i \in DOMAIN the_mask_1d |-> TRUE],
                  inpaint_s_list(inpaint_s), the_ref)

\* [pdb_idx.index(val) for val in list if val != ("_", "_")], 0-indexed
RECURSIVE idx0_of(_)
idx0_of(list) ==
    IF list = <<>>
    THEN <<>>
    ELSE (IF Head(list) # Gap THEN <<index(pdb_idx, Head(list)) - 1>> ELSE <<>>)
         \o idx0_of(Tail(list))

\* [idx for idx, val in enumerate(list) if val != ("_", "_")]
RECURSIVE hal_idx0_of(_, _)
hal_idx0_of(list, idx) ==
    IF idx > Len(list)
    THEN <<>>
    ELSE (IF list[idx] # Gap THEN <<idx - 1>> ELSE <<>>) \o hal_idx0_of(list, idx + 1)

----------------------------------------------------------------------------
(* The stages of __init__ *)

Init ==
    /\ pc = "sanity"
    /\ err = ""
    /\ \/ /\ contigs \in {Some(c) : c \in ContigStrings}
          /\ length_arg \in Lengths
          /\ sym_order \in SymOrders
          /\ ref_idx = None /\ hal_idx = None /\ idx_rf = None
       \/ /\ contigs \in {None, Some(<<<<Rng(1, MaxGen)>>>>)}
          /\ length_arg = None
          /\ sym_order = None
          /\ \E m \in PreciseMappings : ref_idx = m[1] /\ hal_idx = m[2] /\ idx_rf = m[3]
    /\ inpaint_seq_arg \in ResidueLists
    /\ inpaint_str_arg \in ResidueLists
    /\ provide_seq \in ProvideSeqs
    /\ ss_args \in SSLists
    /\ length = None
    /\ count = 0
    /\ compatible = FALSE
    /\ sampled_mask = <<>>
    /\ contig_length = 0
    /\ n_inpaint_chains = 0
    /\ receptor = <<>>
    /\ receptor_hal = <<>>
    /\ receptor_rf = <<>>
    /\ inpaint = None
    /\ inpaint_hal = <<>>
    /\ inpaint_rf = <<>>
    /\ receptor_chain_break = <<>>
    /\ inpaint_chain_break = <<>>
    /\ ref = <<>>
    /\ hal = <<>>
    /\ rf = <<>>
    /\ mask_1d = <<>>
    /\ inpaint_seq = <<>>
    /\ inpaint_str = <<>>
    /\ seq_before = <<>>
    /\ idx0 = None
    /\ ss_spec = None

\* __init__, lines 36-68 and 89-93: the sanity checks, the parse of length and,
\* for a precise mapping, the copy of the three arguments
SanityChecks ==
    /\ pc = "sanity"
    /\ IF contigs = None /\ ref_idx = None
       THEN /\ pc' = "failed"
            /\ err' = "Must either specify a contig string or precise mapping"
            /\ UNCHANGED <<length, ref, hal, rf>>
       ELSE IF (idx_rf # None \/ hal_idx # None \/ ref_idx # None)
                /\ (idx_rf = None \/ hal_idx = None \/ ref_idx = None)
       THEN /\ pc' = "failed"
            /\ err' = "If you're specifying specific contig mappings ..."
            /\ UNCHANGED <<length, ref, hal, rf>>
       ELSE /\ pc' = IF ref_idx = None THEN "get_sampled_mask" ELSE "masks"
            /\ length' = IF length_arg = None
                         THEN None
                         ELSE IF ~hasDash(Val(length_arg))
                         THEN Some(<<Val(length_arg).a, Val(length_arg).a + 1>>)
                         ELSE Some(<<Val(length_arg).a, Val(length_arg).b + 1>>)
            /\ ref' = IF ref_idx = None THEN ref ELSE Val(ref_idx)
            /\ hal' = IF ref_idx = None THEN hal ELSE Val(hal_idx)
            /\ rf' = IF ref_idx = None THEN rf ELSE Val(idx_rf)
            /\ UNCHANGED err
    /\ UNCHANGED <<argVars, sampleVars, maskVars, provide_seq, ss_args, idx0, ss_spec>>
    /\ UNCHANGED <<receptor, receptor_hal, receptor_rf, inpaint, inpaint_hal, inpaint_rf,
                   receptor_chain_break, inpaint_chain_break>>

\* get_sampled_mask, lines 177-292: one pass of the while loop and, when the
\* pass leaves the loop, the rebuild and the return
GetSampledMask ==
    /\ pc = "get_sampled_mask"
    /\ LET contig_list == Val(contigs)
           multi == sym_order # None /\ Len(contig_list) = Val(sym_order)
           check_symmetry == sym_order # None /\ ~multi
           og_contigs == contig_list
           sampled_list == allow_receptor_last(IF multi THEN <<contig_list[1]>> ELSE contig_list)
       IN  IF sym_order # None /\ Len(contig_list) \notin {1, Val(sym_order)}
           THEN /\ pc' = "failed"
                /\ err' = "Number of chains in contig must be 1 or match symmetry order"
                /\ UNCHANGED sampleVars
           ELSE IF multi /\ \E i \in 2..Len(contig_list) :
                                ref_contigs(contig_list[i]) # ref_contigs(contig_list[1])
           THEN /\ pc' = "failed"
                /\ err' = "All contigs must be the same structure when using multiple chains and symmetry"
                /\ UNCHANGED sampleVars
           ELSE \E r \in sample_contig_list(sampled_list) :
                  /\ count' = count + 1
                  /\ compatible' = length_compatible(r.len, check_symmetry)
                  /\ IF retries_exhausted(count + 1)
                     THEN /\ pc' = "failed"
                          /\ err' = "Contig string incompatible"
                          /\ UNCHANGED <<sampled_mask, contig_length, n_inpaint_chains>>
                     ELSE IF length_compatible(r.len, check_symmetry)
                     THEN LET out == rebuild(r, og_contigs, check_symmetry)
                          IN  /\ pc' = "expand_sampled_mask"
                              /\ sampled_mask' = out.mask
                              /\ contig_length' = out.len
                              /\ n_inpaint_chains' = out.chains
                              /\ UNCHANGED err
                     ELSE UNCHANGED <<pc, err, sampled_mask, contig_length, n_inpaint_chains>>
    /\ UNCHANGED <<argVars, length, expandVars, maskVars, provide_seq, ss_args, idx0, ss_spec>>

\* __init__, lines 77-88, and expand_sampled_mask
ExpandSampledMask ==
    /\ pc = "expand_sampled_mask"
    /\ LET receptor_chain == chain_order[n_inpaint_chains + 1]
           st == expand_cons(expand_start, sampled_mask, receptor_chain)
           rfs == get_rf(st)
       IN  IF st.error # ""
           THEN /\ pc' = "failed"
                /\ err' = st.error
                /\ UNCHANGED expandVars
           ELSE /\ pc' = "masks"
                /\ receptor' = st.receptor
                /\ receptor_hal' = renumber_receptor_hal(st)
                /\ receptor_rf' = rfs.receptor_rf
                /\ inpaint' = Some(st.inpaint)
                /\ inpaint_hal' = st.inpaint_hal
                /\ inpaint_rf' = rfs.inpaint_rf
                /\ receptor_chain_break' = st.receptor_chain_break
                /\ inpaint_chain_break' = st.inpaint_chain_break
                /\ ref' = st.inpaint \o st.receptor
                /\ hal' = st.inpaint_hal \o renumber_receptor_hal(st)
                /\ rf' = rfs.inpaint_rf \o rfs.receptor_rf
                /\ UNCHANGED err
    /\ UNCHANGED <<argVars, length, sampleVars, maskVars, provide_seq, ss_args, idx0, ss_spec>>

\* __init__, lines 94-114: mask_1d, inpaint_seq, inpaint_str
BuildMasks ==
    /\ pc = "masks"
    /\ LET m == [i \in DOMAIN ref |-> ref[i] # Gap]
           seq == IF inpaint_seq_arg # None
                  THEN get_inpaint_seq_str(Val(inpaint_seq_arg), FALSE, m, ref)
                  ELSE [i \in DOMAIN ref |-> ref[i] # Gap]
       IN  /\ mask_1d' = m
           /\ inpaint_seq' = seq
           /\ seq_before' = seq
           /\ inpaint_str' = IF inpaint_str_arg # None
                             THEN get_inpaint_seq_str(Val(inpaint_str_arg), FALSE, m, ref)
                             ELSE [i \in DOMAIN ref |-> ref[i] # Gap]
    /\ pc' = "get_idx0"
    /\ UNCHANGED <<err, argVars, length, sampleVars, expandVars, inpaint_seq_arg, inpaint_str_arg,
                   provide_seq, ss_args, idx0, ss_spec>>

\* __init__, lines 116-124, and get_idx0
GetIdx0 ==
    /\ pc = "get_idx0"
    /\ IF \E i \in DOMAIN ref : ref[i] # Gap /\ ref[i] \notin Range(pdb_idx)
       THEN /\ pc' = "failed"
            /\ err' = "AssertionError: residue is not in pdb file!"
            /\ UNCHANGED idx0
       ELSE IF inpaint = None
       THEN /\ pc' = "failed"
            /\ err' = "AttributeError: 'ContigMap' object has no attribute 'inpaint'"
            /\ UNCHANGED idx0
       ELSE /\ pc' = "provide_seq"
            /\ idx0' = Some([ref_idx0 |-> idx0_of(ref),
                             hal_idx0 |-> hal_idx0_of(ref, 1),
                             ref_idx0_inpaint |-> idx0_of(Val(inpaint)),
                             hal_idx0_inpaint |-> hal_idx0_of(Val(inpaint), 1),
                             ref_idx0_receptor |-> idx0_of(receptor),
                             hal_idx0_receptor |-> hal_idx0_of(receptor, 1)])
            /\ UNCHANGED err
    /\ UNCHANGED <<argVars, length, sampleVars, expandVars, maskVars, provide_seq, ss_args, ss_spec>>

\* apply_provide_seq with the end of a range i-j excluded
RECURSIVE apply_provide_seq_exclusive(_, _)
apply_provide_seq_exclusive(st, items) ==
    IF items = <<>> \/ st.error # ""
    THEN st
    ELSE LET i == Head(items)
         IN  apply_provide_seq_exclusive(
               IF hasDash(i)
               THEN [st EXCEPT !.mask = [p \in DOMAIN @ |-> IF i.a <= p - 1 /\ p - 1 < i.b
                                                            THEN TRUE ELSE @[p]]]
               ELSE IF i.a >= Len(st.mask)
               THEN [st EXCEPT !.error = "IndexError: index out of bounds"]
               ELSE [st EXCEPT !.mask[i.a + 1] = TRUE],
               Tail(items))

\* lines 130-136: the items of provide_seq, in order; error is set by an
\* index past the end of the mask
RECURSIVE apply_provide_seq(_, _)
apply_provide_seq(st, items) ==
    IF items = <<>> \/ st.error # ""
    THEN st
    ELSE LET i == Head(items)
         IN  apply_provide_seq(
               IF hasDash(i)
               THEN [st EXCEPT !.mask = [p \in DOMAIN @ |-> IF i.a <= p - 1 /\ p - 1 < i.b + 1
                                                            THEN TRUE ELSE @[p]]]
               ELSE IF i.a >= Len(st.mask)
               THEN [st EXCEPT !.error = "IndexError: index out of bounds"]
               ELSE [st EXCEPT !.mask[i.a + 1] = TRUE],
               Tail(items))

\* __init__, lines 126-136: "Handle provide seq"
ProvideSeq ==
    /\ pc = "provide_seq"
    /\ LET st == IF provide_seq = None
                 THEN [mask |-> inpaint_seq, error |-> ""]
                 ELSE apply_provide_seq([mask |-> inpaint_seq, error |-> ""], Val(provide_seq))
       IN  IF st.error # ""
           THEN /\ pc' = "failed"
                /\ err' = st.error
                /\ UNCHANGED inpaint_seq
           ELSE /\ pc' = "secondary_structure"
                /\ inpaint_seq' = st.mask
                /\ UNCHANGED err
    /\ UNCHANGED <<argVars, length, sampleVars, expandVars, mask_1d, inpaint_str, seq_before,
                   inpaint_seq_arg, inpaint_str_arg, provide_seq, ss_args, idx0, ss_spec>>

\* lines 160-164: self.ss_spec, in the order helix, strand, loop
get_ss_spec(lists) ==
    [idx \in 1..3 |->
        IF lists[idx] # None
        THEN LET m == get_inpaint_seq_str(Val(lists[idx]), TRUE, mask_1d, ref)
             IN  [i \in DOMAIN m |-> ~m[i]]
        ELSE [i \in 1..Len(inpaint_seq) |-> FALSE]]

\* masked_overlap against inpaint_seq instead of inpaint_str
masked_overlap_seq(mask) == Cardinality({i \in DOMAIN mask : mask[i] /\ inpaint_seq[i]})

\* sum(mask * self.inpaint_str)
masked_overlap(mask) == Cardinality({i \in DOMAIN mask : mask[i] /\ inpaint_str[i]})

\* np.sum(stack, axis=0)[i - 1]
assignations(stack, i) == Cardinality({idx \in DOMAIN stack : stack[idx][i]})

\* __init__, lines 157-169: the secondary structure of the provided sequence
SecondaryStructure ==
    /\ pc = "secondary_structure"
    /\ IF \E idx \in 1..3 : ss_args[idx] # None
       THEN LET spec == get_ss_spec(ss_args)
            IN  IF \E idx \in 1..3 : masked_overlap(spec[idx]) # 0
                THEN /\ pc' = "failed"
                     /\ err' = "You've specified residues that are not structure-masked with inpaint_str"
                     /\ UNCHANGED ss_spec
                ELSE IF ~(/\ \E i \in DOMAIN ref : assignations(spec, i) = 1
                          /\ \A i \in DOMAIN ref : assignations(spec, i) <= 1)
                THEN /\ pc' = "failed"
                     /\ err' = "You've given multiple secondary structure assignations to an input residue"
                     /\ UNCHANGED ss_spec
                ELSE /\ pc' = "done"
                     /\ ss_spec' = Some(spec)
                     /\ UNCHANGED err
       ELSE /\ pc' = "done"
            /\ UNCHANGED <<err, ss_spec>>
    /\ UNCHANGED <<argVars, length, sampleVars, expandVars, maskVars, provide_seq, ss_args, idx0>>

Next ==
    \/ SanityChecks
    \/ GetSampledMask
    \/ ExpandSampledMask
    \/ BuildMasks
    \/ GetIdx0
    \/ ProvideSeq
    \/ SecondaryStructure

Spec == Init /\ [][Next]_vars

\* The calls that leave the residue lists, provide_seq and the secondary
\* structure lists at their default, None: the sampling loop reads none of them.
DefaultListsInit ==
    /\ Init
    /\ inpaint_seq_arg = None
    /\ inpaint_str_arg = None
    /\ provide_seq = None
    /\ ss_args = <<None, None, None>>

\* __init__ up to the return of get_sampled_mask (line 76)
SamplingNext ==
    \/ SanityChecks
    \/ GetSampledMask

\* The call of get_sampled_mask, followed to its return or to the end of the
\* construction.  The code is sequential: a pass of the loop that can run does run.
SamplingSpec == DefaultListsInit /\ [][SamplingNext]_vars /\ WF_vars(SamplingNext)

----------------------------------------------------------------------------
(* Vocabulary of the properties *)

\* get_sampled_mask has returned
Returned == sampled_mask # <<>>

\* the construction reads a contig specification
FromContigs == ref_idx = None /\ contigs # None

\* the masks stage has run
MasksBuilt == pc \in {"get_idx0", "provide_seq", "secondary_structure", "done"}

\* the residues a hold-fixed or secondary-structure list names
Listed(list) == UNION {{<<list[j].ch, n>> : n \in list[j].a..list[j].b} : j \in DOMAIN list}

\* i is the first position of ref that holds residue res
FirstAt(res, i) == ref[i] = res /\ \A j \in 1..(i - 1) : ref[j] # res

\* the number of residues a resolved token stands for
TokenLength(tok) ==
    IF tok.t = "ref" THEN tok.b - tok.a + 1
    ELSE IF tok.t = "res" THEN 1
    ELSE tok.a

\* the length a resolved chain adds to the total: receptor chains add nothing
ChainLength(con) ==
    IF is_receptor(con) THEN 0 ELSE Sum([j \in DOMAIN con |-> TokenLength(con[j])])

----------------------------------------------------------------------------
(* C1 *)

PreciseCall ==
    /\ contigs = None
    /\ ref_idx # None /\ hal_idx # None /\ idx_rf # None
    /\ provide_seq = None
    /\ \A idx \in 1..3 : ss_args[idx] = None

\* C1: a construction from a precise mapping (ref_idx, hal_idx, idx_rf all
\* given, no contig string) does not fail and samples nothing, and once the
\* sanity checks are passed ref, hal and rf are the three arguments.
C1_PreciseMappingRoundTrip ==
    PreciseCall =>
        /\ pc # "failed"
        /\ count = 0
        /\ pc # "sanity" => ref = Val(ref_idx) /\ hal = Val(hal_idx) /\ rf = Val(idx_rf)

----------------------------------------------------------------------------
(* C2 *)

\* C2: after a successful construction from a contig specification, ref, hal,
\* rf, mask_1d, inpaint_seq and inpaint_str have the same length.
C2_SixLengthsEqual ==
    (pc = "done" /\ FromContigs) =>
        /\ Len(hal) = Len(ref)
        /\ Len(rf) = Len(ref)
        /\ Len(mask_1d) = Len(ref)
        /\ Len(inpaint_seq) = Len(ref)
        /\ Len(inpaint_str) = Len(ref)

\* a finished construction with symmetry order 2, two inpaint chains that hold
\* reference and generated residues, and both hold-fixed lists
C2_Witness ==
    /\ pc = "done" /\ FromContigs
    /\ sym_order = Some(2)
    /\ n_inpaint_chains = 2
    /\ \E i \in DOMAIN ref : ref[i] = Gap
    /\ \E i \in DOMAIN ref : ref[i] # Gap
    /\ inpaint_seq_arg # None /\ inpaint_str_arg # None
    /\ Len(ref) = 8

----------------------------------------------------------------------------
(* C3 *)

\* C3: when get_sampled_mask has returned and a total-length target is
\* configured, the returned contig_length lies in [min, max) of self.length,
\* and with a symmetry order k it is divisible by k.
C3_ReturnedLengthInWindow ==
    (Returned /\ length # None) =>
        /\ contig_length >= Val(length)[1]
        /\ contig_length < Val(length)[2]
        /\ sym_order # None => contig_length % Val(sym_order) = 0

----------------------------------------------------------------------------
(* C4 *)

SingleChainSymmetry ==
    /\ Returned
    /\ sym_order # None
    /\ Len(Val(contigs)) = 1

\* C4 as stated: with symmetry order k and one chain sub-specification,
\* sampled_mask holds k copies of the resolved chain, and the inpaint chain
\* count and the total length are k times those of the single chain.
C4_SingleChainReplicated ==
    SingleChainSymmetry =>
        /\ Len(sampled_mask) = Val(sym_order)
        /\ \A i \in DOMAIN sampled_mask : sampled_mask[i] = sampled_mask[1]
        /\ n_inpaint_chains = Val(sym_order) * (IF is_receptor(sampled_mask[1]) THEN 0 ELSE 1)
        /\ contig_length = Val(sym_order) * ChainLength(sampled_mask[1])

\* C4 amended: with symmetry order k >= 2 and one chain sub-specification,
\* sampled_mask holds the resolved chain once, the inpaint chain count and the
\* total length are those of that chain, and the total length is a multiple of k.
C4_SingleChainNotReplicated ==
    (SingleChainSymmetry /\ Val(sym_order) >= 2) =>
        /\ Len(sampled_mask) = 1
        /\ n_inpaint_chains = (IF is_receptor(sampled_mask[1]) THEN 0 ELSE 1)
        /\ contig_length = ChainLength(sampled_mask[1])
        /\ contig_length % Val(sym_order) = 0
        /\ Len(sampled_mask[1]) \in {Len(Val(contigs)[1]), Len(Val(contigs)[1]) + 1}
        /\ \A j \in DOMAIN Val(contigs)[1] :
              isalpha(Val(contigs)[1][j]) => sampled_mask[1][j] = Val(contigs)[1][j]

\* one chain with a motif and a generated stretch, symmetry order 2, returned
C4_Witness ==
    /\ SingleChainSymmetry
    /\ Val(sym_order) = 2
    /\ n_inpaint_chains = 1
    /\ contig_length = 4
    /\ \E j \in DOMAIN sampled_mask[1] : isalpha(sampled_mask[1][j])

----------------------------------------------------------------------------
(* C5 *)

\* two chain sub-specifications have the same token pattern
SameTokenPattern(c1, c2) ==
    /\ Len(c1) = Len(c2)
    /\ \A j \in DOMAIN c1 :
          /\ isalpha(c1[j]) <=> isalpha(c2[j])
          /\ isalpha(c1[j]) => TokenLength(c1[j]) = TokenLength(c2[j])
          /\ ~isalpha(c1[j]) => c1[j] = c2[j]

\* C5: with symmetry order k, a pass of get_sampled_mask ends the construction
\* when the number of chain sub-specifications is neither 1 nor k, and when it
\* is k and two sub-specifications differ in token pattern.
C5_SymmetryMismatchRejected ==
    [][(/\ pc = "get_sampled_mask"
        /\ sym_order # None
        /\ \/ Len(Val(contigs)) \notin {1, Val(sym_order)}
           \/ /\ Len(Val(contigs)) = Val(sym_order)
              /\ \E i \in DOMAIN Val(contigs) :
                    ~SameTokenPattern(Val(contigs)[i], Val(contigs)[1]))
       => pc' = "failed"]_vars

----------------------------------------------------------------------------
(* C6 *)

\* C6 as stated: without a hold-fixed list the mask is mask_1d, True exactly
\* where ref is not Gap; with a list, every position whose ref entry is listed
\* is True in the mask.
C6_ListedResiduesKnown ==
    MasksBuilt =>
        /\ \A i \in DOMAIN ref : mask_1d[i] = (ref[i] # Gap)
        /\ inpaint_seq_arg = None => seq_before = mask_1d
        /\ inpaint_str_arg = None => inpaint_str = mask_1d
        /\ inpaint_seq_arg # None =>
              \A i \in DOMAIN ref : ref[i] \in Listed(Val(inpaint_seq_arg)) => seq_before[i]
        /\ inpaint_str_arg # None =>
              \A i \in DOMAIN ref : ref[i] \in Listed(Val(inpaint_str_arg)) => inpaint_str[i]

\* the mask a list of residues gives: mask_1d, but False at the first position
\* of every listed residue that occurs in ref
MaskedFirst(list, i) == mask_1d[i] /\ ~\E res \in Listed(list) : FirstAt(res, i)

\* C6 amended: without a hold-fixed list the mask is mask_1d, True exactly
\* where ref is not Gap; with a list, the mask is mask_1d except that for every
\* listed residue that occurs in ref, the first position holding it is False;
\* listed residues that do not occur in ref change nothing.
C6_ListedResiduesMasked ==
    MasksBuilt =>
        /\ \A i \in DOMAIN ref : mask_1d[i] = (ref[i] # Gap)
        /\ Len(seq_before) = Len(ref) /\ Len(inpaint_str) = Len(ref)
        /\ inpaint_seq_arg = None => seq_before = mask_1d
        /\ inpaint_str_arg = None => inpaint_str = mask_1d
        /\ inpaint_seq_arg # None =>
              \A i \in DOMAIN ref : seq_before[i] = MaskedFirst(Val(inpaint_seq_arg), i)
        /\ inpaint_str_arg # None =>
              \A i \in DOMAIN ref : inpaint_str[i] = MaskedFirst(Val(inpaint_str_arg), i)

\* a listed residue that occurs twice in ref: masked at its first position,
\* still True at its second; another listed residue does not occur in ref
C6_Witness ==
    /\ MasksBuilt
    /\ inpaint_seq_arg # None
    /\ \E i \in DOMAIN ref : \E j \in DOMAIN ref :
          /\ i < j /\ ref[i] = ref[j] /\ ref[i] \in Listed(Val(inpaint_seq_arg))
          /\ ~seq_before[i] /\ seq_before[j]
    /\ \E res \in Listed(Val(inpaint_seq_arg)) : \A i \in DOMAIN ref : ref[i] # res

----------------------------------------------------------------------------
(* C7 *)

\* C7: after a successful construction from a contig specification, rf is
\* strictly increasing over the whole output.
C7_RfStrictlyIncreasing ==
    (pc = "done" /\ FromContigs) =>
        \A i \in 1..(Len(rf) - 1) : rf[i + 1] >= rf[i] + 1

----------------------------------------------------------------------------
(* C8 *)

\* the fragments of the receptor blocks of a resolved contig list, in order,
\* each with the break the claim expects after it
RECURSIVE BlockFragments(_, _)
BlockFragments(subcons, idx) ==
    IF idx > Len(subcons)
    THEN <<>>
    ELSE <<[n |-> subcons[idx].b - subcons[idx].a + 1,
            jump |-> IF idx < Len(subcons)
                     THEN subcons[idx + 1].a - subcons[idx].b - 1
                     ELSE 200,
            inner |-> idx < Len(subcons)]>>
         \o BlockFragments(subcons, idx + 1)

RECURSIVE ReceptorFragments(_)
ReceptorFragments(cons) ==
    IF cons = <<>>
    THEN <<>>
    ELSE (IF is_receptor(Head(cons)) THEN BlockFragments(Front(Head(cons)), 1) ELSE <<>>)
         \o ReceptorFragments(Tail(cons))

Expanded == FromContigs /\ inpaint # None

\* C8: expand_sampled_mask records one break per receptor fragment, at the
\* number of receptor residues emitted so far; its jump is the next fragment's
\* start - this fragment's end - 1 inside a block and 200 after the last
\* fragment of a block.  Every break but the last recorded is applied to
\* receptor_rf: across it rf advances by 1 + jump, which inside a block is the
\* difference of the two reference residue numbers.
C8_ReceptorChainBreaks ==
    Expanded =>
        LET frags == ReceptorFragments(sampled_mask)
        IN  /\ Len(receptor_chain_break) = Len(frags)
            /\ \A m \in DOMAIN frags :
                  /\ receptor_chain_break[m][1] = Sum([j \in 1..m |-> frags[j].n])
                  /\ receptor_chain_break[m][2] = frags[m].jump
            /\ \A m \in 1..(Len(frags) - 1) :
                  LET p == receptor_chain_break[m][1]
                  IN  /\ receptor_rf[p + 1] - receptor_rf[p] = 1 + frags[m].jump
                      /\ frags[m].inner =>
                            receptor_rf[p + 1] - receptor_rf[p] = receptor[p + 1][2] - receptor[p][2]

\* two receptor blocks of two fragments each: four breaks, three applied
C8_Witness ==
    /\ Expanded
    /\ receptor_chain_break = <<<<2, 2>>, <<4, 200>>, <<6, 2>>, <<8, 200>>>>
    /\ receptor_rf = <<200, 201, 204, 205, 406, 407, 410, 411>>

----------------------------------------------------------------------------
(* C9 *)

SSGiven == \E idx \in 1..3 : ss_args[idx] # None

\* position i is tagged by list idx (1 helix, 2 strand, 3 loop)
Tagged(idx, i) ==
    /\ ss_args[idx] # None
    /\ \E res \in Listed(Val(ss_args[idx])) : FirstAt(res, i)

\* C9: with a secondary-structure list supplied, the construction fails when a
\* tagged position has inpaint_str True or a position is tagged by two lists;
\* after a successful construction ss_spec holds the tags, every position has
\* at most one tag and every tagged position has inpaint_str False.
C9_SecondaryStructureConsistent ==
    /\ [][(/\ pc = "secondary_structure"
           /\ SSGiven
           /\ \/ \E idx \in 1..3 : \E i \in DOMAIN ref : Tagged(idx, i) /\ inpaint_str[i]
              \/ \E i \in DOMAIN ref : \E k1 \in 1..3 : \E k2 \in 1..3 :
                    k1 # k2 /\ Tagged(k1, i) /\ Tagged(k2, i))
          => pc' = "failed"]_vars
    /\ []((pc = "done" /\ SSGiven) =>
            /\ ss_spec # None
            /\ \A i \in DOMAIN ref :
                  /\ \A idx \in 1..3 : Val(ss_spec)[idx][i] = Tagged(idx, i)
                  /\ Cardinality({idx \in 1..3 : Val(ss_spec)[idx][i]}) <= 1
                  /\ \A idx \in 1..3 : Val(ss_spec)[idx][i] => ~inpaint_str[i])

\* a finished construction with a helix tag and a strand tag
C9_Witness ==
    /\ pc = "done"
    /\ ss_spec # None
    /\ \E i \in DOMAIN ref : \E j \in DOMAIN ref :
          i # j /\ Val(ss_spec)[1][i] /\ Val(ss_spec)[2][j]

----------------------------------------------------------------------------
(* C10 *)

\* 0-indexed position q is listed by provide_seq
Provided(q) ==
    \E j \in DOMAIN Val(provide_seq) :
        LET i == Val(provide_seq)[j]
        IN  IF i.t = "rng" THEN i.a <= q /\ q <= i.b ELSE i.a = q

\* C10: once provide_seq is applied, inpaint_seq is True at every listed
\* position and as the masks stage left it elsewhere; the step changes none of
\* inpaint_str, mask_1d, ref, hal, rf.
C10_ProvideSeqFrame ==
    /\ []((pc \in {"secondary_structure", "done"} /\ provide_seq # None) =>
            /\ Len(inpaint_seq) = Len(seq_before)
            /\ \A p \in DOMAIN inpaint_seq : inpaint_seq[p] = (Provided(p - 1) \/ seq_before[p]))
    /\ [][pc = "provide_seq" => UNCHANGED <<inpaint_str, mask_1d, ref, hal, rf>>]_vars

\* provide_seq has turned a False of inpaint_seq into True, left another
\* False, and left inpaint_str False where inpaint_seq became True
C10_Witness ==
    /\ pc = "done"
    /\ provide_seq # None
    /\ \E p \in DOMAIN inpaint_seq : ~seq_before[p] /\ inpaint_seq[p] /\ ~inpaint_str[p]
    /\ \E p \in DOMAIN inpaint_seq : ~inpaint_seq[p]
    /\ \E p \in DOMAIN inpaint_seq : seq_before[p] /\ Provided(p - 1)

----------------------------------------------------------------------------
(* C11 *)

\* C11: get_sampled_mask terminates: it never starts a pass after RetryCap
\* passes, and a call that is in its loop leaves the loop, by a return or by
\* ending the construction.
C11_SamplingTerminates ==
    /\ [](count <= RetryCap)
    /\ [](pc = "get_sampled_mask" => count < RetryCap)
    /\ (pc = "get_sampled_mask") ~> (pc \in {"expand_sampled_mask", "failed"})

\* a call whose window no resolution meets has used all its passes and ended
C11_Witness ==
    /\ pc = "failed"
    /\ err = "Contig string incompatible"
    /\ count = RetryCap
    /\ ~compatible
    /\ length # None /\ sym_order # None

----------------------------------------------------------------------------
(* C12 *)

\* get_sampled_mask has ended the construction with its exit for an
\* unsatisfiable length window or symmetry order
Exhausted == pc = "failed" /\ err = "Contig string incompatible"

\* C12: get_sampled_mask takes its unsatisfiable-constraint exit only after
\* RetryCap passes of which the last, like the ones before it, drew an
\* incompatible resolution; a pass that draws a compatible resolution, the
\* RetryCap-th included, returns it.
C12_ExitOnlyWhenAllIncompatible ==
    Exhausted => (count = RetryCap /\ ~compatible)

====
